---- MODULE Spec2Model ----
(***************************************************************************)
(* Model of the WebRTC signaling relay in src-tauri/src/signaling.rs:      *)
(* the room registry ROOMS, the per-connection task handle_connection      *)
(* (handshake, read loop with its router, cleanup, write task) and the     *)
(* lifecycle commands start_signaling_server / stop_signaling_server with  *)
(* the accept-loop task and the broadcast shutdown channel.                *)
(*                                                                         *)
(* Every critical section of the code (one acquisition of the ROOMS lock)  *)
(* is one action.  Uuid::new_v4() is modelled as a fresh identifier.       *)
(***************************************************************************)
EXTENDS Integers, Sequences, FiniteSets, TLC

\* ---------------------------------------------------------------- bounds
NumSessions == 3
MaxVids == 2
MaxEnvelopes == 3
MaxStarts == 2
MaxStops == 2
MaxLifeSessions == 1
MaxStopSessions == 2

Sessions == 1..NumSessions
Vids == 1..MaxVids
Chans == 1..MaxStarts
RoomCodes == {"A", "B"}
Sdps == {"s1", "s2"}
Ports == {1, 2}

NoRoom == "-"
NoVid == 0
NoChan == 0

VARIABLES
  rooms,        \* ROOMS: room code -> [host_tx, viewers]
  pc,           \* position of each handle_connection task
  room_code,    \* local room_code of each task (NoRoom = None)
  is_host,      \* local is_host of each task
  viewer_id,    \* local viewer_id of each task (NoVid = None)
  outq,         \* per session: history of Tx::send calls on its queue
  wl,           \* per session: state of send_task ("none","run","stopped")
  wsent,        \* per session: the messages written to the socket, in order
  shutdown_rx,  \* per session: broadcast channel its receiver belongs to
  sig,          \* per session: shutdown message pending in its receiver
  running,      \* SIGNALING_RUNNING
  SHUTDOWN_TX,  \* SHUTDOWN_TX: channel whose sender is stored (NoChan = None)
  accPc,        \* per channel: position of the accept-loop task
  accSig,       \* per channel: shutdown message pending in the accept loop
  port,         \* per channel: port its TcpListener is bound to
  startPc,      \* position of the start_signaling_server call in flight
  stopPc,       \* position of the stop_signaling_server call in flight
  result,       \* return value of the last completed command
  nextVid,      \* number of uuids generated so far
  nEnv,         \* number of text frames routed so far
  nIgnored,     \* number of frames that fell to the no-op arms
  nStarts,      \* number of listeners bound so far
  nStops        \* number of stop calls so far

vars == <<rooms, pc, room_code, is_host, viewer_id, outq, wl, wsent,
          shutdown_rx, sig, running, SHUTDOWN_TX, accPc, accSig, port,
          startPc, stopPc, result, nextVid, nEnv, nIgnored, nStarts, nStops>>

sessVars == <<pc, room_code, is_host, viewer_id, wl, wsent, shutdown_rx, sig>>
lifeVars == <<running, SHUTDOWN_TX, accPc, accSig, port, startPc, stopPc,
              result, nStarts, nStops>>

\* ------------------------------------------------------- SignalMessage
SignalMessage(t, v, s, c) == [type |-> t, viewerId |-> v, sdp |-> s, candidate |-> c]
ViewerJoinedMsg(v) == SignalMessage("viewer-joined", v, "", "")
ViewerLeftMsg(v) == SignalMessage("viewer-left", v, "", "")
HostLeftMsg == SignalMessage("host-left", NoVid, "", "")
ErrorMsg == SignalMessage("error", NoVid, "", "")
OfferMsg(v, s) == SignalMessage("offer", v, s, "")
AnswerMsg(v, s) == SignalMessage("answer", v, s, "")
IceCandidateMsg(v, c) == SignalMessage("ice-candidate", v, "", c)

\* ------------------------------------------------------------- helpers
EmptyMap == [x \in {} |-> 0]

Room(h) == [host_tx |-> h, viewers |-> EmptyMap]

MapInsert(m, k, v) == [x \in (DOMAIN m) \cup {k} |-> IF x = k THEN v ELSE m[x]]
MapRemove(m, k) == [x \in (DOMAIN m) \ {k} |-> m[x]]

\* Tx::send(m) on session t's queue: Ok while the receiver (owned by t's
\* send_task) is alive, Err (ignored by every caller) once it is dropped.
Send(q, t, m) == [q EXCEPT ![t] = Append(@, [msg |-> m, ok |-> wl[t] = "run"])]

RECURSIVE Repeat(_, _)
Repeat(m, n) == IF n = 0 THEN <<>> ELSE <<m>> \o Repeat(m, n - 1)

\* the HostLeft loop over r.viewers: one send per entry of the map
SendAll(q, viewers, m) ==
  [t \in Sessions |->
     q[t] \o Repeat([msg |-> m, ok |-> wl[t] = "run"],
                    Cardinality({v \in DOMAIN viewers : viewers[v] = t}))]

\* a broadcast channel is closed when every Sender is dropped: the one in
\* SHUTDOWN_TX and the one owned by the accept-loop task
ChanClosed(c) == SHUTDOWN_TX # c /\ accPc[c] = "exited"

PortBusy(p) == \E c \in Chans : accPc[c] \in {"bound", "spawned", "loop"} /\ port[c] = p

Init ==
  /\ rooms = EmptyMap
  /\ pc = [s \in Sessions |-> "none"]
  /\ room_code = [s \in Sessions |-> NoRoom]
  /\ is_host = [s \in Sessions |-> FALSE]
  /\ viewer_id = [s \in Sessions |-> NoVid]
  /\ outq = [s \in Sessions |-> <<>>]
  /\ wl = [s \in Sessions |-> "none"]
  /\ wsent = [s \in Sessions |-> <<>>]
  /\ shutdown_rx = [s \in Sessions |-> NoChan]
  /\ sig = [s \in Sessions |-> FALSE]
  /\ running = FALSE
  /\ SHUTDOWN_TX = NoChan
  /\ accPc = [c \in Chans |-> "none"]
  /\ accSig = [c \in Chans |-> FALSE]
  /\ port = [c \in Chans |-> 0]
  /\ startPc = "idle"
  /\ stopPc = "idle"
  /\ result = <<"none", 0>>
  /\ nextVid = 0
  /\ nEnv = 0
  /\ nIgnored = 0
  /\ nStarts = 0
  /\ nStops = 0

\* ------------------------------------------------- handle_connection
\* accept_async(stream): the upgrade succeeds; the queue and send_task exist
Handshake(s) ==
  /\ pc[s] = "handshake"
  /\ pc' = [pc EXCEPT ![s] = "read"]
  /\ wl' = [wl EXCEPT ![s] = "run"]
  /\ UNCHANGED <<rooms, room_code, is_host, viewer_id, outq, wsent,
                 shutdown_rx, sig, nextVid, nEnv, nIgnored>>
  /\ UNCHANGED lifeVars

\* accept_async(stream) fails: return before anything is allocated
HandshakeFail(s) ==
  /\ pc[s] = "handshake"
  /\ pc' = [pc EXCEPT ![s] = "done"]
  /\ UNCHANGED <<rooms, room_code, is_host, viewer_id, outq, wl, wsent,
                 shutdown_rx, sig, nextVid, nEnv, nIgnored>>
  /\ UNCHANGED lifeVars

\* the read loop took a text frame; the model routes MaxEnvelopes frames
Routing(s) == pc[s] = "read" /\ nEnv < MaxEnvelopes

\* Host as it would be if taking over a room kept the viewers it has
Host_KeepViewers(s, room) ==
  /\ Routing(s)
  /\ nEnv' = nEnv + 1
  /\ UNCHANGED nIgnored
  /\ rooms' = IF room \in DOMAIN rooms
                THEN [rooms EXCEPT ![room].host_tx = s]
                ELSE MapInsert(rooms, room, Room(s))
  /\ room_code' = [room_code EXCEPT ![s] = room]
  /\ is_host' = [is_host EXCEPT ![s] = TRUE]
  /\ UNCHANGED <<pc, viewer_id, outq, wl, wsent, shutdown_rx, sig, nextVid>>
  /\ UNCHANGED lifeVars

\* SignalMessage::Host { room }
Host(s, room) ==
  /\ Routing(s)
  /\ nEnv' = nEnv + 1
  /\ UNCHANGED nIgnored
  /\ rooms' = MapInsert(rooms, room, Room(s))
  /\ room_code' = [room_code EXCEPT ![s] = room]
  /\ is_host' = [is_host EXCEPT ![s] = TRUE]
  /\ UNCHANGED <<pc, viewer_id, outq, wl, wsent, shutdown_rx, sig, nextVid>>
  /\ UNCHANGED lifeVars

\* uuid::Uuid::new_v4(): an identifier never generated before
NewUuid == nextVid + 1

\* Viewer as it would be if an unknown room were dropped without an answer
Viewer_SilentDrop(s, room) ==
  /\ Routing(s)
  /\ nEnv' = nEnv + 1
  /\ UNCHANGED nIgnored
  /\ IF room \in DOMAIN rooms
       THEN /\ nextVid < MaxVids
            /\ rooms' = [rooms EXCEPT ![room].viewers = MapInsert(@, NewUuid, s)]
            /\ viewer_id' = [viewer_id EXCEPT ![s] = NewUuid]
            /\ room_code' = [room_code EXCEPT ![s] = room]
            /\ outq' = Send(outq, rooms[room].host_tx, ViewerJoinedMsg(NewUuid))
            /\ nextVid' = NewUuid
       ELSE UNCHANGED <<rooms, viewer_id, room_code, nextVid, outq>>
  /\ UNCHANGED <<pc, is_host, wl, wsent, shutdown_rx, sig>>
  /\ UNCHANGED lifeVars

\* SignalMessage::Viewer { room }
Viewer(s, room) ==
  /\ Routing(s)
  /\ nEnv' = nEnv + 1
  /\ UNCHANGED nIgnored
  /\ IF room \in DOMAIN rooms
       THEN /\ nextVid < MaxVids
            /\ LET vid == NewUuid
                   r == rooms[room]
               IN /\ rooms' = [rooms EXCEPT ![room].viewers = MapInsert(@, vid, s)]
                  /\ viewer_id' = [viewer_id EXCEPT ![s] = vid]
                  /\ room_code' = [room_code EXCEPT ![s] = room]
                  /\ outq' = Send(outq, r.host_tx, ViewerJoinedMsg(vid))
                  /\ nextVid' = vid
       ELSE /\ outq' = Send(outq, s, ErrorMsg)
            /\ UNCHANGED <<rooms, viewer_id, room_code, nextVid>>
  /\ UNCHANGED <<pc, is_host, wl, wsent, shutdown_rx, sig>>
  /\ UNCHANGED lifeVars

\* Offer as it would be if it went to every viewer of the room
Offer_Broadcast(s, vid, sdp) ==
  /\ Routing(s)
  /\ nEnv' = nEnv + 1
  /\ UNCHANGED nIgnored
  /\ IF room_code[s] # NoRoom /\ room_code[s] \in DOMAIN rooms
       THEN outq' = SendAll(outq, rooms[room_code[s]].viewers, OfferMsg(vid, sdp))
       ELSE outq' = outq
  /\ UNCHANGED <<rooms, pc, room_code, is_host, viewer_id, wl, wsent,
                 shutdown_rx, sig, nextVid>>
  /\ UNCHANGED lifeVars

\* SignalMessage::Offer { viewer_id: vid, sdp }
Offer(s, vid, sdp) ==
  /\ Routing(s)
  /\ nEnv' = nEnv + 1
  /\ UNCHANGED nIgnored
  /\ IF /\ room_code[s] # NoRoom
        /\ room_code[s] \in DOMAIN rooms
        /\ vid \in DOMAIN rooms[room_code[s]].viewers
       THEN outq' = Send(outq, rooms[room_code[s]].viewers[vid], OfferMsg(vid, sdp))
       ELSE outq' = outq
  /\ UNCHANGED <<rooms, pc, room_code, is_host, viewer_id, wl, wsent,
                 shutdown_rx, sig, nextVid>>
  /\ UNCHANGED lifeVars

\* Answer as it would be if the client-supplied id were passed on
Answer_ClientId(s, x, sdp) ==
  /\ Routing(s)
  /\ nEnv' = nEnv + 1
  /\ UNCHANGED nIgnored
  /\ IF /\ room_code[s] # NoRoom
        /\ viewer_id[s] # NoVid
        /\ room_code[s] \in DOMAIN rooms
       THEN outq' = Send(outq, rooms[room_code[s]].host_tx, AnswerMsg(x, sdp))
       ELSE outq' = outq
  /\ UNCHANGED <<rooms, pc, room_code, is_host, viewer_id, wl, wsent,
                 shutdown_rx, sig, nextVid>>
  /\ UNCHANGED lifeVars

\* SignalMessage::Answer { viewer_id: _, sdp }; x is the client-supplied id
Answer(s, x, sdp) ==
  /\ Routing(s)
  /\ nEnv' = nEnv + 1
  /\ UNCHANGED nIgnored
  /\ IF /\ room_code[s] # NoRoom
        /\ viewer_id[s] # NoVid
        /\ room_code[s] \in DOMAIN rooms
       THEN outq' = Send(outq, rooms[room_code[s]].host_tx, AnswerMsg(viewer_id[s], sdp))
       ELSE outq' = outq
  /\ UNCHANGED <<rooms, pc, room_code, is_host, viewer_id, wl, wsent,
                 shutdown_rx, sig, nextVid>>
  /\ UNCHANGED lifeVars

\* SignalMessage::IceCandidate { viewer_id: target_vid, candidate }
IceCandidate(s, target_vid, candidate) ==
  /\ Routing(s)
  /\ nEnv' = nEnv + 1
  /\ UNCHANGED nIgnored
  /\ IF room_code[s] # NoRoom /\ room_code[s] \in DOMAIN rooms
       THEN LET r == rooms[room_code[s]]
            IN IF is_host[s]
                 THEN IF target_vid # NoVid /\ target_vid \in DOMAIN r.viewers
                        THEN outq' = Send(outq, r.viewers[target_vid],
                                          IceCandidateMsg(target_vid, candidate))
                        ELSE outq' = outq
                 ELSE outq' = Send(outq, r.host_tx,
                                   IceCandidateMsg(viewer_id[s], candidate))
       ELSE outq' = outq
  /\ UNCHANGED <<rooms, pc, room_code, is_host, viewer_id, wl, wsent,
                 shutdown_rx, sig, nextVid>>
  /\ UNCHANGED lifeVars

\* Ignore as it would be if the sender were told about the frame it sent
Ignore_ReplyError(s) ==
  /\ Routing(s)
  /\ nEnv' = nEnv + 1
  /\ nIgnored' = nIgnored + 1
  /\ outq' = Send(outq, s, ErrorMsg)
  /\ UNCHANGED <<rooms, nextVid>>
  /\ UNCHANGED sessVars
  /\ UNCHANGED lifeVars

\* a text frame that does not decode, a decoded server-generated variant
\* (the `_ => {}` arms), or a non-text frame
Ignore(s) ==
  /\ Routing(s)
  /\ nEnv' = nEnv + 1
  /\ nIgnored' = nIgnored + 1
  /\ UNCHANGED <<rooms, outq, nextVid>>
  /\ UNCHANGED sessVars
  /\ UNCHANGED lifeVars

\* Close as it would be if a peer close skipped the cleanup block
Close_SkipCleanup(s) ==
  /\ pc[s] = "read"
  /\ pc' = [pc EXCEPT ![s] = "abort"]
  /\ UNCHANGED <<rooms, room_code, is_host, viewer_id, outq, wl, wsent,
                 shutdown_rx, sig, nextVid, nEnv, nIgnored>>
  /\ UNCHANGED lifeVars

\* Some(Ok(Message::Close(_))) | None => break
Close(s) ==
  /\ pc[s] = "read"
  /\ pc' = [pc EXCEPT ![s] = "cleanup"]
  /\ UNCHANGED <<rooms, room_code, is_host, viewer_id, outq, wl, wsent,
                 shutdown_rx, sig, nextVid, nEnv, nIgnored>>
  /\ UNCHANGED lifeVars

\* _ = shutdown_rx.recv() => break: a message is pending or the channel is
\* closed (recv returns Err(Closed), which the pattern accepts as well)
ShutdownRecv(s) ==
  /\ pc[s] = "read"
  /\ sig[s] \/ ChanClosed(shutdown_rx[s])
  /\ pc' = [pc EXCEPT ![s] = "cleanup"]
  /\ sig' = [sig EXCEPT ![s] = FALSE]
  /\ UNCHANGED <<rooms, room_code, is_host, viewer_id, outq, wl, wsent,
                 shutdown_rx, nextVid, nEnv, nIgnored>>
  /\ UNCHANGED lifeVars

\* the cleanup block as it would be if the host's room were removed before
\* its viewers are looked up
Cleanup_RemoveFirst(s) ==
  /\ pc[s] = "cleanup"
  /\ LET room == room_code[s]
     IN IF room # NoRoom
          THEN IF is_host[s]
                 THEN /\ outq' = outq
                      /\ rooms' = MapRemove(rooms, room)
                 ELSE IF viewer_id[s] # NoVid /\ room \in DOMAIN rooms
                        THEN /\ rooms' = [rooms EXCEPT ![room].viewers =
                                            MapRemove(@, viewer_id[s])]
                             /\ outq' = Send(outq, rooms[room].host_tx,
                                             ViewerLeftMsg(viewer_id[s]))
                        ELSE UNCHANGED <<rooms, outq>>
          ELSE UNCHANGED <<rooms, outq>>
  /\ pc' = [pc EXCEPT ![s] = "abort"]
  /\ UNCHANGED <<room_code, is_host, viewer_id, wl, wsent, shutdown_rx, sig,
                 nextVid, nEnv, nIgnored>>
  /\ UNCHANGED lifeVars

\* the block under "// Cleanup"
Cleanup(s) ==
  /\ pc[s] = "cleanup"
  /\ LET room == room_code[s]
     IN IF room # NoRoom
          THEN IF is_host[s]
                 THEN /\ outq' = IF room \in DOMAIN rooms
                                   THEN SendAll(outq, rooms[room].viewers, HostLeftMsg)
                                   ELSE outq
                      /\ rooms' = MapRemove(rooms, room)
                 ELSE IF viewer_id[s] # NoVid /\ room \in DOMAIN rooms
                        THEN /\ rooms' = [rooms EXCEPT ![room].viewers =
                                            MapRemove(@, viewer_id[s])]
                             /\ outq' = Send(outq, rooms[room].host_tx,
                                             ViewerLeftMsg(viewer_id[s]))
                        ELSE UNCHANGED <<rooms, outq>>
          ELSE UNCHANGED <<rooms, outq>>
  /\ pc' = [pc EXCEPT ![s] = "abort"]
  /\ UNCHANGED <<room_code, is_host, viewer_id, wl, wsent, shutdown_rx, sig,
                 nextVid, nEnv, nIgnored>>
  /\ UNCHANGED lifeVars

\* send_task.abort(), then the task returns
Abort(s) ==
  /\ pc[s] = "abort"
  /\ pc' = [pc EXCEPT ![s] = "done"]
  /\ wl' = [wl EXCEPT ![s] = "stopped"]
  /\ UNCHANGED <<rooms, room_code, is_host, viewer_id, outq, wsent,
                 shutdown_rx, sig, nextVid, nEnv, nIgnored>>
  /\ UNCHANGED lifeVars

\* number of items the queue accepted
Accepted(q) == Cardinality({i \in 1..Len(q) : q[i].ok})

\* rx.recv(): the oldest accepted item not yet taken; sends are accepted
\* until the receiver is dropped, so the accepted items come first
Recv(s) == outq[s][Len(wsent[s]) + 1].msg

\* send_task as it would be if it took the newest item of the queue
WriteSend_Newest(s) ==
  /\ wl[s] = "run"
  /\ Len(wsent[s]) < Accepted(outq[s])
  /\ wsent' = [wsent EXCEPT ![s] = Append(@, outq[s][Accepted(outq[s])].msg)]
  /\ UNCHANGED <<rooms, pc, room_code, is_host, viewer_id, outq, wl,
                 shutdown_rx, sig, nextVid, nEnv, nIgnored>>
  /\ UNCHANGED lifeVars

\* send_task: rx.recv() returned an item and ws_tx.send(msg) succeeded
WriteSend(s) ==
  /\ wl[s] = "run"
  /\ Len(wsent[s]) < Accepted(outq[s])
  /\ wsent' = [wsent EXCEPT ![s] = Append(@, Recv(s))]
  /\ UNCHANGED <<rooms, pc, room_code, is_host, viewer_id, outq, wl,
                 shutdown_rx, sig, nextVid, nEnv, nIgnored>>
  /\ UNCHANGED lifeVars

\* send_task as it would be if a failed write ended the session
WriteFail_EndsSession(s) ==
  /\ wl[s] = "run"
  /\ Len(wsent[s]) < Accepted(outq[s])
  /\ wl' = [wl EXCEPT ![s] = "stopped"]
  /\ pc' = [pc EXCEPT ![s] = IF @ = "read" THEN "cleanup" ELSE @]
  /\ UNCHANGED <<rooms, room_code, is_host, viewer_id, outq, wsent,
                 shutdown_rx, sig, nextVid, nEnv, nIgnored>>
  /\ UNCHANGED lifeVars

\* send_task: ws_tx.send(msg) failed, the loop breaks and rx is dropped
WriteFail(s) ==
  /\ wl[s] = "run"
  /\ Len(wsent[s]) < Accepted(outq[s])
  /\ wl' = [wl EXCEPT ![s] = "stopped"]
  /\ UNCHANGED <<rooms, pc, room_code, is_host, viewer_id, outq, wsent,
                 shutdown_rx, sig, nextVid, nEnv, nIgnored>>
  /\ UNCHANGED lifeVars

\* --------------------------------------------- start_signaling_server
\* the running check, then TcpListener::bind
StartCall(p) ==
  /\ startPc = "idle"
  /\ IF running
       THEN /\ result' = <<"Ok", p>>
            /\ UNCHANGED <<accPc, port, startPc, nStarts>>
       ELSE IF PortBusy(p)
         THEN /\ result' = <<"Err", p>>
              /\ UNCHANGED <<accPc, port, startPc, nStarts>>
         ELSE /\ nStarts < MaxStarts
              /\ LET c == nStarts + 1
                 IN /\ accPc' = [accPc EXCEPT ![c] = "bound"]
                    /\ port' = [port EXCEPT ![c] = p]
              /\ nStarts' = nStarts + 1
              /\ startPc' = "bound"
              /\ UNCHANGED result
  /\ UNCHANGED <<running, SHUTDOWN_TX, accSig, stopPc, nStops>>
  /\ UNCHANGED <<rooms, outq, nextVid, nEnv, nIgnored>>
  /\ UNCHANGED sessVars

\* broadcast::channel(1); *SHUTDOWN_TX.lock() = Some(shutdown_tx.clone())
StartSetTx ==
  /\ startPc = "bound"
  /\ stopPc = "idle"
  /\ SHUTDOWN_TX' = nStarts
  /\ startPc' = "set"
  /\ UNCHANGED <<running, accPc, accSig, port, stopPc, result,
                 nStarts, nStops>>
  /\ UNCHANGED <<rooms, outq, nextVid, nEnv, nIgnored>>
  /\ UNCHANGED sessVars

\* SIGNALING_RUNNING.store(true); tokio::spawn(accept loop); Ok(port)
StartSpawn ==
  /\ startPc = "set"
  /\ running' = TRUE
  /\ accPc' = [accPc EXCEPT ![nStarts] = "spawned"]
  /\ startPc' = "idle"
  /\ result' = <<"Ok", port[nStarts]>>
  /\ UNCHANGED <<SHUTDOWN_TX, accSig, port, stopPc, nStarts, nStops>>
  /\ UNCHANGED <<rooms, outq, nextVid, nEnv, nIgnored>>
  /\ UNCHANGED sessVars

\* the spawned task runs: let mut shutdown_rx = shutdown_tx.subscribe()
AcceptSubscribe(c) ==
  /\ accPc[c] = "spawned"
  /\ accPc' = [accPc EXCEPT ![c] = "loop"]
  /\ UNCHANGED <<running, SHUTDOWN_TX, accSig, port, startPc,
                 stopPc, result, nStarts, nStops>>
  /\ UNCHANGED <<rooms, outq, nextVid, nEnv, nIgnored>>
  /\ UNCHANGED sessVars

\* listener.accept() => Ok: subscribe for the client and spawn its task
Accept(c, s) ==
  /\ accPc[c] = "loop"
  /\ pc[s] = "none"
  /\ \A t \in Sessions : t < s => pc[t] # "none"
  /\ pc' = [pc EXCEPT ![s] = "handshake"]
  /\ shutdown_rx' = [shutdown_rx EXCEPT ![s] = c]
  /\ UNCHANGED <<rooms, room_code, is_host, viewer_id, outq, wl, wsent, sig,
                 nextVid, nEnv, nIgnored>>
  /\ UNCHANGED lifeVars

\* _ = shutdown_rx.recv() => break; SIGNALING_RUNNING.store(false); the
\* task ends, dropping the listener and its Sender
AcceptShutdown(c) ==
  /\ accPc[c] = "loop"
  /\ accSig[c]
  /\ accPc' = [accPc EXCEPT ![c] = "exited"]
  /\ accSig' = [accSig EXCEPT ![c] = FALSE]
  /\ running' = FALSE
  /\ UNCHANGED <<SHUTDOWN_TX, port, startPc, stopPc, result,
                 nStarts, nStops>>
  /\ UNCHANGED <<rooms, outq, nextVid, nEnv, nIgnored>>
  /\ UNCHANGED sessVars

\* ---------------------------------------------- stop_signaling_server
\* lock SHUTDOWN_TX; take() and send(()) to every subscribed receiver;
\* SIGNALING_RUNNING.store(false)
StopSend ==
  /\ stopPc = "idle"
  /\ nStops < MaxStops
  /\ LET c == SHUTDOWN_TX
     IN /\ sig' = [s \in Sessions |->
                     IF c # NoChan /\ shutdown_rx[s] = c /\ pc[s] \in {"handshake", "read"}
                       THEN TRUE ELSE sig[s]]
        /\ accSig' = [d \in Chans |->
                        IF d = c /\ accPc[d] = "loop" THEN TRUE ELSE accSig[d]]
  /\ SHUTDOWN_TX' = NoChan
  /\ running' = FALSE
  /\ stopPc' = "clear"
  /\ nStops' = nStops + 1
  /\ UNCHANGED <<accPc, port, startPc, result, nStarts>>
  /\ UNCHANGED <<rooms, pc, room_code, is_host, viewer_id, outq, wl, wsent,
                 shutdown_rx, nextVid, nEnv, nIgnored>>

\* ROOMS.write().await.clear(); Ok(())
StopClear ==
  /\ stopPc = "clear"
  /\ rooms' = EmptyMap
  /\ stopPc' = "idle"
  /\ result' = <<"Ok", 0>>
  /\ UNCHANGED <<running, SHUTDOWN_TX, accPc, accSig, port, startPc,
                 nStarts, nStops>>
  /\ UNCHANGED <<outq, nextVid, nEnv, nIgnored>>
  /\ UNCHANGED sessVars

Candidates == {"c1"}

\* the life of one connection task, short of what it does with frames
ConnNext ==
  \/ \E s \in Sessions : Handshake(s)
  \/ \E s \in Sessions : HandshakeFail(s)
  \/ \E s \in Sessions : Close(s)
  \/ \E s \in Sessions : Cleanup(s)
  \/ \E s \in Sessions : Abort(s)

\* the router: one text frame taken by a read loop
RouterNext ==
  \/ \E s \in Sessions, room \in RoomCodes : Host(s, room)
  \/ \E s \in Sessions, room \in RoomCodes : Viewer(s, room)
  \/ \E s \in Sessions, vid \in Vids, sdp \in Sdps : Offer(s, vid, sdp)
  \/ \E s \in Sessions, x \in Vids \cup {NoVid}, sdp \in Sdps : Answer(s, x, sdp)
  \/ \E s \in Sessions, v \in Vids \cup {NoVid}, c \in Candidates : IceCandidate(s, v, c)
  \/ \E s \in Sessions : Ignore(s)

StartNext ==
  \/ \E p \in Ports : StartCall(p)
  \/ StartSetTx
  \/ StartSpawn
  \/ \E c \in Chans : AcceptSubscribe(c)

StopNext ==
  \/ \E c \in Chans : AcceptShutdown(c)
  \/ \E s \in Sessions : ShutdownRecv(s)
  \/ StopSend
  \/ StopClear

Next ==
  \/ ConnNext
  \/ RouterNext
  \/ StartNext
  \/ \E c \in Chans, s \in Sessions : Accept(c, s)
  \/ StopNext
  \/ \E s \in Sessions : WriteSend(s)
  \/ \E s \in Sessions : WriteFail(s)

Spec == Init /\ [][Next]_vars

\* the relay while the server is up: no stop_signaling_server call
RelayInit ==
  /\ rooms = EmptyMap
  /\ pc = [s \in Sessions |-> "none"]
  /\ room_code = [s \in Sessions |-> NoRoom]
  /\ is_host = [s \in Sessions |-> FALSE]
  /\ viewer_id = [s \in Sessions |-> NoVid]
  /\ outq = [s \in Sessions |-> <<>>]
  /\ wl = [s \in Sessions |-> "none"]
  /\ wsent = [s \in Sessions |-> <<>>]
  /\ shutdown_rx = [s \in Sessions |-> NoChan]
  /\ sig = [s \in Sessions |-> FALSE]
  /\ running = TRUE
  /\ SHUTDOWN_TX = 1
  /\ accPc = [c \in Chans |-> IF c = 1 THEN "loop" ELSE "none"]
  /\ accSig = [c \in Chans |-> FALSE]
  /\ port = [c \in Chans |-> IF c = 1 THEN 1 ELSE 0]
  /\ startPc = "idle"
  /\ stopPc = "idle"
  /\ result = <<"Ok", 1>>
  /\ nextVid = 0
  /\ nEnv = 0
  /\ nIgnored = 0
  /\ nStarts = 1
  /\ nStops = 0

RelayNext ==
  \/ ConnNext
  \/ RouterNext
  \/ \E s \in Sessions : WriteFail(s)
  \/ \E c \in Chans, s \in Sessions : Accept(c, s)

RelaySpec == RelayInit /\ [][RelayNext]_vars


\* start and stop, with MaxLifeSessions connections that claim or join rooms
LifeNext ==
  \/ ConnNext
  \/ \E s \in Sessions, room \in RoomCodes : Host(s, room)
  \/ \E s \in Sessions, room \in RoomCodes : Viewer(s, room)
  \/ StartNext
  \/ \E c \in Chans, s \in 1..MaxLifeSessions : Accept(c, s)
  \/ StopNext

LifeSpec == Init /\ [][LifeNext]_vars


\* every task that can take a step is eventually scheduled, a pending
\* handshake ends one way or the other, and tokio::select! does not pass
\* over a ready shutdown branch forever; what clients and the application
\* do (connect, send, close, start, stop) carries no obligation
LifeFairness ==
  /\ WF_vars(StartSetTx)
  /\ WF_vars(StartSpawn)
  /\ WF_vars(StopClear)
  /\ \A c \in Chans : WF_vars(AcceptSubscribe(c))
  /\ \A c \in Chans : WF_vars(AcceptShutdown(c))
  /\ \A s \in Sessions : WF_vars(Handshake(s) \/ HandshakeFail(s))
  /\ \A s \in Sessions : WF_vars(ShutdownRecv(s))
  /\ \A s \in Sessions : WF_vars(Cleanup(s))
  /\ \A s \in Sessions : WF_vars(Abort(s))

FairLifeSpec == Init /\ [][LifeNext]_vars /\ LifeFairness

\* stop_signaling_server against a running server with MaxStopSessions
\* connections that claim or join rooms
ShutdownNext ==
  \/ ConnNext
  \/ \E s \in Sessions, room \in RoomCodes : Host(s, room)
  \/ \E s \in Sessions, room \in RoomCodes : Viewer(s, room)
  \/ \E c \in Chans, s \in 1..MaxStopSessions : Accept(c, s)
  \/ StopNext

ShutdownSpec == RelayInit /\ [][ShutdownNext]_vars

\* the relay with the write tasks draining the queues
WriteNext ==
  \/ RelayNext
  \/ \E s \in Sessions : WriteSend(s)

WriteSpec == RelayInit /\ [][WriteNext]_vars

\* clients that send one role envelope each, with every room code claimed
\* by one host at most, while the server is up
JoinNext ==
  \/ ConnNext
  \/ \E s \in Sessions, room \in RoomCodes :
       /\ room_code[s] = NoRoom
       /\ \A t \in Sessions : ~(is_host[t] /\ room_code[t] = room)
       /\ Host(s, room)
  \/ \E s \in Sessions, room \in RoomCodes :
       /\ room_code[s] = NoRoom
       /\ Viewer(s, room)
  \/ \E s \in Sessions : WriteFail(s)
  \/ \E c \in Chans, s \in Sessions : Accept(c, s)

JoinSpec == RelayInit /\ [][JoinNext]_vars

\* start and stop as an application issues them that never stops a server
\* before it is up: stop_signaling_server is called only when no start is
\* in flight and the accept loop has subscribed; the tasks interleave freely
CalmNext ==
  \/ ConnNext
  \/ \E s \in Sessions, room \in RoomCodes : Host(s, room)
  \/ \E s \in Sessions, room \in RoomCodes : Viewer(s, room)
  \/ StartNext
  \/ \E c \in Chans, s \in 1..MaxLifeSessions : Accept(c, s)
  \/ \E c \in Chans : AcceptShutdown(c)
  \/ \E s \in Sessions : ShutdownRecv(s)
  \/ /\ startPc = "idle"
     /\ \A c \in Chans : accPc[c] # "spawned"
     /\ StopSend
  \/ StopClear

CalmSpec == Init /\ [][CalmNext]_vars

\* ------------------------------------------------------------ properties
\* the messages handed to session t's queue during the step
NewMsgs(t) ==
  [i \in 1..(Len(outq'[t]) - Len(outq[t])) |-> outq'[t][Len(outq[t]) + i].msg]

NothingEnqueued == \A t \in Sessions : NewMsgs(t) = <<>>

\* exactly one message, m, is enqueued, and it goes to session t
OnlyEnqueued(t, m) ==
  \A u \in Sessions : NewMsgs(u) = IF u = t THEN <<m>> ELSE <<>>

\* number of messages of type ty handed to a queue so far
CountType(q, ty) == Cardinality({i \in 1..Len(q) : q[i].msg.type = ty})

\* the role a connection task holds in its locals
Unassigned(s) == room_code[s] = NoRoom
IsHostOf(s, room) == is_host[s] /\ room_code[s] = room
IsViewerOf(s, room, vid) == vid # NoVid /\ viewer_id[s] = vid /\ room_code[s] = room

\* C1: a session's role is write-once: once it holds a room code, its role
\* (host flag, room code, viewer id) never changes, and a later Host or Viewer
\* frame from it changes no room and enqueues nothing.
C1_RoleWriteOnce ==
  [][\A s \in Sessions :
       ~Unassigned(s) =>
         /\ room_code'[s] = room_code[s]
         /\ is_host'[s] = is_host[s]
         /\ viewer_id'[s] = viewer_id[s]
         /\ \A room \in RoomCodes :
              (Host(s, room) \/ Viewer(s, room)) => rooms' = rooms /\ NothingEnqueued]_vars

\* the step is the cleanup of session s
CleanupOf(s) == pc[s] = "cleanup" /\ pc'[s] = "abort"

\* C2: no room is removed, and no HostLeft is sent to its viewers, because
\* of the termination of a session that is not the room's registered host
\* (a room goes only by its own host's cleanup or by stop's clear).
C2_OnlyOwnHostTearsDown ==
  [][\A s \in Sessions, room \in RoomCodes :
       (CleanupOf(s) /\ room \in DOMAIN rooms /\ rooms[room].host_tx # s) =>
         /\ room \in DOMAIN rooms'
         /\ \A v \in DOMAIN rooms[room].viewers :
              CountType(outq'[rooms[room].viewers[v]], "host-left")
                = CountType(outq[rooms[room].viewers[v]], "host-left")]_vars

\* C3: an Offer from a session whose role is not Host (a viewer or an
\* unassigned session) is dropped: nothing is enqueued to any session.
C3_OfferOnlyFromHost ==
  [][\A s \in Sessions, vid \in Vids, sdp \in Sdps :
       (Offer(s, vid, sdp) /\ ~is_host[s]) => NothingEnqueued]_vars

\* C4: when the host of room R sends Offer{V, S}, exactly one message,
\* Offer{V, S}, is enqueued, to the session registered as viewer V in R; if V
\* is not registered in R nothing is enqueued at all.
C4_OfferToNamedViewer ==
  [][\A s \in Sessions, vid \in Vids, sdp \in Sdps, room \in RoomCodes :
       (Offer(s, vid, sdp) /\ IsHostOf(s, room)) =>
         IF room \in DOMAIN rooms /\ vid \in DOMAIN rooms[room].viewers
           THEN OnlyEnqueued(rooms[room].viewers[vid], OfferMsg(vid, sdp))
           ELSE NothingEnqueued]_vars

\* a host that sent an Offer has it enqueued to the viewer it named
C4_Witness ==
  \E s, t \in Sessions, vid \in Vids, sdp \in Sdps :
    /\ s # t
    /\ is_host[s] /\ room_code[s] \in DOMAIN rooms
    /\ rooms[room_code[s]].host_tx = s
    /\ vid \in DOMAIN rooms[room_code[s]].viewers
    /\ rooms[room_code[s]].viewers[vid] = t
    /\ outq[t] # <<>> /\ outq[t][Len(outq[t])].msg = OfferMsg(vid, sdp)

\* C5: an Answer{X, S} from a viewer whose server-assigned id is V is
\* enqueued to the host of the viewer's room as Answer{V, S}, whatever X is,
\* and to nobody else; an Answer from a session that is no viewer is
\* forwarded to no one.
C5_AnswerCarriesServerId ==
  [][\A s \in Sessions, x \in Vids \cup {NoVid}, sdp \in Sdps :
       Answer(s, x, sdp) =>
         IF viewer_id[s] # NoVid /\ room_code[s] \in DOMAIN rooms
           THEN OnlyEnqueued(rooms[room_code[s]].host_tx, AnswerMsg(viewer_id[s], sdp))
           ELSE NothingEnqueued]_vars

\* a host holds an Answer tagged with the id of a viewer registered in its room
C5_Witness ==
  \E h, s \in Sessions, sdp \in Sdps :
    /\ h # s
    /\ ~is_host[s] /\ viewer_id[s] # NoVid
    /\ room_code[s] \in DOMAIN rooms
    /\ rooms[room_code[s]].host_tx = h
    /\ outq[h] # <<>> /\ outq[h][Len(outq[h])].msg = AnswerMsg(viewer_id[s], sdp)


\* session t is registered as a viewer of the room
RegisteredIn(t, room) ==
  room \in DOMAIN rooms /\ \E v \in DOMAIN rooms[room].viewers : rooms[room].viewers[v] = t

\* C6: when the host session of room R terminates, every viewer registered
\* in R is enqueued exactly one HostLeft (and nobody else anything), R leaves
\* the registry, and until some session sends Host{R} again R stays absent
\* and a Viewer{R} is answered with Error.
C6_HostTeardown ==
  [][/\ \A s \in Sessions, room \in RoomCodes :
          (CleanupOf(s) /\ IsHostOf(s, room)) =>
            /\ room \notin DOMAIN rooms'
            /\ \A t \in Sessions :
                 NewMsgs(t) = IF RegisteredIn(t, room) THEN <<HostLeftMsg>> ELSE <<>>
     /\ \A room \in RoomCodes :
          (room \notin DOMAIN rooms /\ room \in DOMAIN rooms') =>
            \E s \in Sessions : Host(s, room)
     /\ \A s \in Sessions, room \in RoomCodes :
          (Viewer(s, room) /\ room \notin DOMAIN rooms) => OnlyEnqueued(s, ErrorMsg)]_vars

\* C7: when viewer V of room R terminates while R's host is still connected,
\* the host is enqueued exactly one ViewerLeft{V} (and nobody else anything),
\* only V's entry leaves R's viewer map, every other room is unchanged, and
\* R is still there for a new join.
C7_ViewerTeardown ==
  [][\A s \in Sessions, room \in RoomCodes, vid \in Vids :
       (/\ CleanupOf(s)
        /\ IsViewerOf(s, room, vid)
        /\ room \in DOMAIN rooms
        /\ pc[rooms[room].host_tx] = "read") =>
         /\ OnlyEnqueued(rooms[room].host_tx, ViewerLeftMsg(vid))
         /\ rooms' = [rooms EXCEPT ![room].viewers = MapRemove(@, vid)]]_vars

\* C8: a Viewer{B} for a room code B that is not in the registry enqueues
\* exactly one Error, to the requester, leaves the registry unchanged and
\* records no room code and no viewer id for the requester.
C8_JoinUnknownRoom ==
  [][\A s \in Sessions, room \in RoomCodes :
       (Viewer(s, room) /\ room \notin DOMAIN rooms) =>
         /\ OnlyEnqueued(s, ErrorMsg)
         /\ rooms' = rooms
         /\ room_code'[s] = room_code[s]
         /\ viewer_id'[s] = viewer_id[s]
         /\ is_host'[s] = is_host[s]]_vars

\* an unassigned session was answered Error and is still unassigned
C8_Witness ==
  \E s \in Sessions :
    /\ pc[s] = "read"
    /\ Unassigned(s) /\ viewer_id[s] = NoVid /\ ~is_host[s]
    /\ outq[s] = <<[msg |-> ErrorMsg, ok |-> TRUE]>>
    /\ \A room \in DOMAIN rooms : ~RegisteredIn(s, room) /\ rooms[room].host_tx # s

\* every viewer id of every room stands for a session of its own
ViewerIdsDistinct ==
  \A room \in DOMAIN rooms :
    \A v, w \in DOMAIN rooms[room].viewers :
      rooms[room].viewers[v] = rooms[room].viewers[w] => v = w

\* C9: a successful Viewer{A} join enqueues exactly one message, a
\* ViewerJoined{id} to A's host (so no Error to the joiner), where id is a key
\* not used in A before under which the joiner is now registered; in every
\* state the viewer ids of a room identify distinct sessions.
C9_JoinAndDistinctIds ==
  /\ []ViewerIdsDistinct
  /\ [][\A s \in Sessions, room \in RoomCodes :
          (Viewer(s, room) /\ room \in DOMAIN rooms) =>
            \E id \in Vids :
              /\ id \notin DOMAIN rooms[room].viewers
              /\ rooms' = [rooms EXCEPT ![room].viewers = MapInsert(@, id, s)]
              /\ OnlyEnqueued(rooms[room].host_tx, ViewerJoinedMsg(id))]_vars


\* stop_signaling_server was the last command to return, no command is in
\* flight and no accept loop is left
Stopped ==
  /\ result = <<"Ok", 0>>
  /\ stopPc = "idle" /\ startPc = "idle"
  /\ \A c \in Chans : accPc[c] \in {"none", "exited"}

NeverStarted == nStarts = 0 /\ startPc = "idle"

\* C10: after stop() has returned the running flag is false and the
\* registry is empty, and they stay so until the next start; a stop() called
\* again, or with the server never started, succeeds and changes nothing.
C10_StopIsFinal ==
  /\ [](Stopped => (running = FALSE /\ rooms = EmptyMap))
  /\ [][(StopSend /\ (Stopped \/ NeverStarted)) =>
          UNCHANGED <<running, SHUTDOWN_TX, rooms, accPc, sig>>]_vars
  /\ [][(StopClear /\ running = FALSE /\ rooms = EmptyMap) =>
          (result' = <<"Ok", 0>> /\ UNCHANGED <<running, SHUTDOWN_TX, rooms, accPc>>)]_vars

\* a listener of the server is alive on channel c
Listening(c) == accPc[c] \in {"bound", "spawned", "loop"}

\* C11: start(p2) called while the server is running on port p1 returns
\* Ok with the existing port p1, binds no second listener and leaves the
\* shutdown channel and the registry unchanged.
C11_StartWhileRunning ==
  [][\A p \in Ports :
       (StartCall(p) /\ running) =>
         /\ \E c \in Chans : Listening(c) /\ result' = <<"Ok", port[c]>>
         /\ UNCHANGED <<accPc, port, nStarts, SHUTDOWN_TX, rooms>>]_vars

\* stop_signaling_server has taken the sender of channel c out of SHUTDOWN_TX
StopTriggered(c) ==
  /\ c \in Chans /\ c <= nStarts
  /\ ~(c = nStarts /\ startPc = "bound")
  /\ SHUTDOWN_TX # c

\* C12: once stop() has been triggered for a server, its accept loop
\* eventually stops accepting, and every session it accepted (one accepted
\* while the stop was under way included) eventually leaves its read loop and
\* runs its teardown, under fair scheduling.
C12_ShutdownLiveness ==
  /\ \A c \in Chans : StopTriggered(c) ~> (accPc[c] = "exited")
  /\ \A s \in Sessions :
       (pc[s] \in {"handshake", "read"} /\ StopTriggered(shutdown_rx[s]))
         ~> (pc[s] \in {"abort", "done"})

\* C13: stop() clears the registry only after the sessions live at the
\* stop have run their teardown: when the registry is cleared no session is
\* that holds a role is still waiting to act on the shutdown message, and no
\* viewer entry is left whose session has not torn down (each got its
\* HostLeft from its host's teardown, or left before).
C13_ClearAfterTeardown ==
  [][StopClear =>
       /\ \A s \in Sessions : sig[s] => Unassigned(s)
       /\ \A room \in DOMAIN rooms : \A v \in DOMAIN rooms[room].viewers :
            pc[rooms[room].viewers[v]] \in {"abort", "done"}]_vars

\* C14: IceCandidate{X, C} is routed by the sender's role: from the host of
\* room R with X present it is enqueued unchanged to viewer X of R and to
\* nobody else (nothing if X is absent or not registered in R); from a viewer
\* with server id V it is enqueued to the host of its room as
\* IceCandidate{V, C} whatever X is, and to nobody else; from an unassigned
\* session nothing is enqueued.
C14_IceCandidateByRole ==
  [][\A s \in Sessions, x \in Vids \cup {NoVid}, c \in Candidates :
       IceCandidate(s, x, c) =>
         /\ \A room \in RoomCodes :
              IsHostOf(s, room) =>
                IF x # NoVid /\ room \in DOMAIN rooms /\ x \in DOMAIN rooms[room].viewers
                  THEN OnlyEnqueued(rooms[room].viewers[x], IceCandidateMsg(x, c))
                  ELSE NothingEnqueued
         /\ \A room \in RoomCodes, vid \in Vids :
              IsViewerOf(s, room, vid) =>
                IF room \in DOMAIN rooms
                  THEN OnlyEnqueued(rooms[room].host_tx, IceCandidateMsg(vid, c))
                  ELSE NothingEnqueued
         /\ Unassigned(s) => NothingEnqueued]_vars

\* C15: a frame that does not decode, or a decoded ViewerJoined, ViewerLeft,
\* HostLeft or Error envelope, from a session in any role, changes neither the
\* registry nor any session's role, enqueues nothing to anyone (no error
\* to the sender either) and leaves every session in its read loop.
C15_UnactionableInputIsInert ==
  [][nIgnored' # nIgnored =>
       /\ rooms' = rooms
       /\ UNCHANGED <<room_code, is_host, viewer_id>>
       /\ NothingEnqueued
       /\ pc' = pc /\ wl' = wl]_vars

\* a frame was ignored while a host and a viewer of its room are connected,
\* and nobody was sent an Error
C15_Witness ==
  /\ nIgnored > 0
  /\ \E h, s \in Sessions, room \in DOMAIN rooms :
       /\ h # s /\ pc[h] = "read" /\ pc[s] = "read"
       /\ IsHostOf(h, room) /\ rooms[room].host_tx = h
       /\ viewer_id[s] # NoVid /\ room_code[s] = room /\ ~is_host[s]
       /\ viewer_id[s] \in DOMAIN rooms[room].viewers
       /\ rooms[room].viewers[viewer_id[s]] = s
  /\ \A t \in Sessions : CountType(outq[t], "error") = 0

\* C16: what the write task of a session has sent to its peer is always a
\* prefix of what was enqueued on the session's queue, in enqueue order,
\* whoever the producers are; the sends the queue refused (receiver dropped)
\* all come after the ones it accepted.
C16_FifoDelivery ==
  \A s \in Sessions :
    /\ Len(wsent[s]) <= Len(outq[s])
    /\ \A i \in 1..Len(wsent[s]) : wsent[s][i] = outq[s][i].msg /\ outq[s][i].ok
    /\ \A i, j \in 1..Len(outq[s]) : (i < j /\ outq[s][j].ok) => outq[s][i].ok

\* a peer was sent two different messages and a third one is still queued
C16_Witness ==
  \E s \in Sessions :
    /\ Len(wsent[s]) = 2 /\ wsent[s][1] # wsent[s][2]
    /\ Len(outq[s]) = 3 /\ outq[s][3].msg # wsent[s][2]

\* the order in which a connection task passes through its positions
PcOrder ==
  {<<"none", "handshake">>, <<"handshake", "read">>, <<"handshake", "done">>,
   <<"read", "cleanup">>, <<"cleanup", "abort">>, <<"abort", "done">>}

\* C17: the teardown of a session runs exactly once, after its read loop
\* has ended (peer close, end of stream or shutdown) and before the session
\* stops its write task; the teardown of a session that holds no role (one
\* whose Viewer join failed included) changes no room and enqueues nothing.
C17_TeardownOnce ==
  [][\A s \in Sessions :
       /\ pc'[s] # pc[s] => <<pc[s], pc'[s]>> \in PcOrder
       /\ (pc'[s] # pc[s] /\ wl[s] = "run" /\ wl'[s] = "stopped") => pc[s] = "abort"
       /\ CleanupOf(s) => wl'[s] = wl[s]
       /\ (CleanupOf(s) /\ Unassigned(s)) => (rooms' = rooms /\ NothingEnqueued)]_vars

\* a session whose only join failed has run its teardown and ended, and the
\* room of another session is as it was
C17_Witness ==
  \E s, h \in Sessions, room \in DOMAIN rooms :
    /\ s # h
    /\ pc[s] = "done" /\ wl[s] = "stopped"
    /\ Unassigned(s) /\ outq[s] = <<[msg |-> ErrorMsg, ok |-> TRUE]>>
    /\ pc[h] = "read" /\ rooms[room] = Room(h) /\ outq[h] = <<>>

\* C18: Host{R} from an unassigned session, for a room code R that is
\* already in the registry, replaces the entry by one whose host is the
\* sender and whose viewer map is empty; every other room is unchanged and
\* nothing is enqueued to anyone (no error, nothing to the previous host
\* or the previous viewers).
C18_HostOverwritesRoom ==
  [][\A s \in Sessions, room \in RoomCodes :
       (Host(s, room) /\ Unassigned(s) /\ room \in DOMAIN rooms) =>
         /\ rooms' = [rooms EXCEPT ![room] = Room(s)]
         /\ NothingEnqueued
         /\ IsHostOf(s, room)']_vars

\* a room taken over by a new host: the previous host and its viewer are
\* still connected, hold the room code, and were told nothing
C18_Witness ==
  \E h, v, s \in Sessions, room \in DOMAIN rooms :
    /\ h # s /\ v # s /\ h # v
    /\ rooms[room] = Room(s) /\ IsHostOf(s, room) /\ pc[s] = "read"
    /\ IsHostOf(h, room) /\ pc[h] = "read"
    /\ outq[h] = <<[msg |-> ViewerJoinedMsg(viewer_id[v]), ok |-> TRUE]>>
    /\ viewer_id[v] # NoVid /\ room_code[v] = room /\ pc[v] = "read"
    /\ outq[v] = <<>> /\ outq[s] = <<>>

\* the write task of session s stops in this step without being aborted
WriteLoopFails(s) == wl[s] = "run" /\ wl'[s] = "stopped" /\ pc[s] # "abort"

\* C19: a failed write stops the write task of that session and nothing
\* else: the registry, every role, every read loop and every other write
\* task are as before and nothing is enqueued; afterwards a message
\* enqueued to that session is dropped silently (the queue takes nothing,
\* nothing is written, nobody else is sent an Error).
C19_WriteFailureIsIsolated ==
  [][\A s \in Sessions :
       /\ WriteLoopFails(s) =>
            /\ rooms' = rooms
            /\ NothingEnqueued
            /\ UNCHANGED <<pc, room_code, is_host, viewer_id, wsent>>
            /\ \A t \in Sessions \ {s} : wl'[t] = wl[t]
       /\ wl[s] = "stopped" =>
            /\ Accepted(outq'[s]) = Accepted(outq[s])
            /\ wsent'[s] = wsent[s]
            /\ NewMsgs(s) # <<>> =>
                 \A u \in Sessions \ {s} : CountType(outq'[u], "error") = CountType(outq[u], "error")]_vars

\* a host whose write task failed is still in its read loop and still
\* registered; a later ViewerJoined for it was dropped, and the viewer that
\* caused it got no Error
C19_Witness ==
  \E h, v \in Sessions, room \in DOMAIN rooms :
    /\ h # v
    /\ wl[h] = "stopped" /\ pc[h] = "read"
    /\ IsHostOf(h, room) /\ rooms[room].host_tx = h
    /\ outq[h] # <<>>
    /\ outq[h][Len(outq[h])] = [msg |-> ViewerJoinedMsg(viewer_id[v]), ok |-> FALSE]
    /\ pc[v] = "read" /\ outq[v] = <<>>
    /\ viewer_id[v] \in DOMAIN rooms[room].viewers

\* the connection task of session s has run its cleanup block
TornDown(s) == pc[s] \in {"abort", "done"}

\* C20: the registry refers only to sessions that have not completed their
\* teardown: no room has as host, or as a viewer entry, the queue of a
\* session whose cleanup has run, whatever envelopes the session sent.
C20_NoLeakedSessions ==
  \A room \in DOMAIN rooms :
    /\ ~TornDown(rooms[room].host_tx)
    /\ \A v \in DOMAIN rooms[room].viewers : ~TornDown(rooms[room].viewers[v])

\* the positions of message m in the history of a queue
Positions(q, m) == {i \in 1..Len(q) : q[i].msg = m}

\* C21: the notifications a session is sent as host are consistent: it
\* is enqueued ViewerLeft{V} only after it was enqueued ViewerJoined{V},
\* and at most once for each V, also when a room is destroyed or replaced
\* and created again under the same code while an old viewer is connected.
C21_ViewerLeftFollowsJoined ==
  \A h \in Sessions, v \in Vids :
    /\ Cardinality(Positions(outq[h], ViewerLeftMsg(v))) <= 1
    /\ \A i \in Positions(outq[h], ViewerLeftMsg(v)) :
         \E j \in Positions(outq[h], ViewerJoinedMsg(v)) : j < i

\* session v is in room's viewer map under the id the server gave it
RegisteredAs(v, room) ==
  /\ room \in DOMAIN rooms
  /\ viewer_id[v] \in DOMAIN rooms[room].viewers
  /\ rooms[room].viewers[viewer_id[v]] = v

\* a session that holds the role of viewer and has not torn down is
\* registered in its room, whose host was enqueued its ViewerJoined, or its
\* room is gone and it has been enqueued HostLeft
ViewerKnowsItsRoom ==
  \A v \in Sessions :
    (viewer_id[v] # NoVid /\ ~TornDown(v)) =>
      \/ /\ RegisteredAs(v, room_code[v])
         /\ Positions(outq[rooms[room_code[v]].host_tx],
                      ViewerJoinedMsg(viewer_id[v])) # {}
      \/ /\ room_code[v] \notin DOMAIN rooms
         /\ Cardinality(Positions(outq[v], HostLeftMsg)) = 1

\* C22: a Viewer{R} join is atomic with respect to the teardown of R's
\* host (one host per room code, no stop): the join either enqueues Error to
\* the joiner and leaves it unassigned and unregistered, or registers it in
\* R and enqueues ViewerJoined to R's host; and at all times a viewer that
\* has not torn down is registered in its room or has been enqueued
\* HostLeft, so none is left with its role, registered nowhere and never
\* told that the host left.
C22_JoinAtomicWithHostTeardown ==
  /\ []ViewerKnowsItsRoom
  /\ [][\A s \in Sessions, room \in RoomCodes :
          (Viewer(s, room) /\ Unassigned(s)) =>
            \/ /\ OnlyEnqueued(s, ErrorMsg)
               /\ Unassigned(s)' /\ viewer_id'[s] = NoVid
               /\ rooms' = rooms
            \/ /\ RegisteredAs(s, room)' /\ IsViewerOf(s, room, viewer_id[s])'
               /\ OnlyEnqueued(rooms[room].host_tx, ViewerJoinedMsg(viewer_id'[s]))]_vars

\* a viewer joined while its host was already closing: the host was
\* enqueued its ViewerJoined, the room is gone, and the viewer, still in
\* its read loop, holds its one HostLeft
C22_Witness ==
  \E h, v \in Sessions, room \in RoomCodes :
    /\ h # v
    /\ IsHostOf(h, room) /\ TornDown(h) /\ room \notin DOMAIN rooms
    /\ IsViewerOf(v, room, viewer_id[v]) /\ pc[v] = "read"
    /\ Positions(outq[h], ViewerJoinedMsg(viewer_id[v])) # {}
    /\ outq[v] = <<[msg |-> HostLeftMsg, ok |-> TRUE]>>

\* the accept-loop task of channel c holds its listener and has not been
\* told to shut down
ActiveListener(c) == accPc[c] \in {"spawned", "loop"} /\ ~accSig[c]

\* C23: however start(), stop() and the accept-loop task interleave, at
\* most one listener is active, the running flag is true whenever a
\* listener is active, and the stored shutdown sender is that of the active
\* listener (so a later stop() can stop it): an accept loop that exits after
\* an earlier stop() does not clear the flag of a later start().
C23_OneListenerFlagAndSender ==
  /\ Cardinality({c \in Chans : ActiveListener(c)}) <= 1
  /\ \A c \in Chans : ActiveListener(c) => (running /\ SHUTDOWN_TX = c)

====
